---- MODULE Spec2Model ----
(***************************************************************************)
(* Projects follower (server/api/utils/projects/follower.py): the periodic *)
(* leader/follower reconciliation of project records.                      *)
(*                                                                         *)
(* The Local Store and the leader's registry are partial functions from    *)
(* project names to project records; the cursor _synced_until_datetime is  *)
(* an optional timestamp, written <<>> (None) or <<t>>.                    *)
(***************************************************************************)
EXTENDS Integers, Sequences, FiniteSets, TLC

VARIABLES
    db,             \* Local Store: project name -> project record
    leader,         \* the leader's registry: project name -> project record
    tasks,          \* project names with an active deletion background task
    synced_until,   \* Member._synced_until_datetime
    last,           \* history: what the last operation was and what it saw
    member,         \* Member: its configuration and how far initialize() got
    router,         \* history: the last call of the Request Router
    cycle           \* a sync cycle in progress, where its steps are told apart

vars == <<db, leader, tasks, synced_until, last, member, router, cycle>>

\* what the actions of a whole sync cycle and of the environment leave alone
aux == <<member, router, cycle>>

----------------------------------------------------------------------------
\* Bounds and constants

\* the timestamps the leader stamps on a project: one before the epoch, and
\* MaxTime after it
MaxTime == 1

\* how many deletion background tasks are active at once
MaxTasks == 1

\* datetime.utcfromtimestamp(0)
Epoch == 0

Names == {"p1", "p2"}

Times == {Epoch - 1} \cup (Epoch + 1)..(Epoch + MaxTime)

ProjectStates == {"online", "archived"}

\* mlrun.common.schemas.ProjectState.terminal_states()
TerminalStates == {"archived"}

Archived == "archived"

Projects == [state : ProjectStates, updated_at : Times]

\* Optional datetime
NoDatetime == <<>>

Datetime(t) == <<t>>

\* all the orders in which a collection may list the names of S
Orders(S) ==
    {s \in [1..Cardinality(S) -> S] : \A i, j \in 1..Cardinality(S) : s[i] = s[j] => i = j}

Range(s) == {s[i] : i \in 1..Len(s)}

Max(S) == CHOOSE x \in S : \A y \in S : y <= x

----------------------------------------------------------------------------
\* Local Store (server.api.crud.Projects)

\* crud.Projects().store_project: upsert, full replace
CrudStoreProject(d, name, project) ==
    [n \in DOMAIN d \cup {name} |-> IF n = name THEN project ELSE d[n]]

\* crud.Projects().patch_project: merge the patch's fields into the row
CrudPatchProject(d, name, patch) ==
    [d EXCEPT ![name] =
        [f \in DOMAIN d[name] |-> IF f \in DOMAIN patch THEN patch[f] ELSE d[name][f]]]

\* crud.Projects().delete_project: the row is gone
CrudDeleteProject(d, name) == [n \in DOMAIN d \ {name} |-> d[n]]

\* crud.Projects().list_projects: the rows, listed in the given order
CrudListProjects(d, order) ==
    [i \in 1..Len(order) |-> [name |-> order[i], project |-> d[order[i]]]]

----------------------------------------------------------------------------
\* Leader Client

\* the names the leader lists: all of them, or those updated after the filter
LeaderListedNames(ldr, updated_after) ==
    {n \in DOMAIN ldr :
        updated_after = NoDatetime \/ ldr[n].updated_at > updated_after[1]}

LeaderLatestUpdatedAt(ldr, listed) ==
    IF listed = {} THEN NoDatetime
    ELSE Datetime(Max({ldr[n].updated_at : n \in listed}))

\* leader_client.list_projects(session, updated_after) -> (projects, latest_updated_at):
\* the listed projects, in the order the leader keeps them
LeaderListProjects(ldr, updated_after, order) ==
    LET listed == LeaderListedNames(ldr, updated_after)
        names  == SelectSeq(order, LAMBDA n : n \in listed)
    IN  [projects |-> [i \in 1..Len(names) |-> [name |-> names[i], project |-> ldr[names[i]]]],
         latest_updated_at |-> LeaderLatestUpdatedAt(ldr, listed)]

----------------------------------------------------------------------------
\* Background Task Registry

DeletionTaskKinds == {"project_deletion_wrapper", "project_deletion"}

\* InternalBackgroundTasksHandler().get_active_background_task_by_kind
GetActiveBackgroundTaskByKind(tsk, kind, name) == <<kind, name>> \in tsk

----------------------------------------------------------------------------
\* Member (the follower)

\* a registry check that asks for one of the two kinds only
ProjectDeletionBackgroundTaskExists_OneKind(tsk, project_name) ==
    GetActiveBackgroundTaskByKind(tsk, "project_deletion", project_name)

\* Member._project_deletion_background_task_exists
ProjectDeletionBackgroundTaskExists(tsk, project_name) ==
    \E kind \in DeletionTaskKinds : GetActiveBackgroundTaskByKind(tsk, kind, project_name)

\* a retry that passes the cursor again
ListProjectsFromLeader_RetryWithCursor(ldr, cursor, fails, order) ==
    LET response == LeaderListProjects(ldr, cursor, order)
    IN  [raised            |-> fails >= 2,
         calls             |-> IF fails = 0 THEN 1 ELSE 2,
         call_log          |-> IF fails = 0
                               THEN <<[updated_after |-> cursor, raised |-> FALSE]>>
                               ELSE <<[updated_after |-> cursor, raised |-> TRUE],
                                      [updated_after |-> cursor, raised |-> fails >= 2]>>,
         leader_projects   |-> IF fails >= 2 THEN <<>> ELSE response.projects,
         latest_updated_at |-> IF fails >= 2 THEN NoDatetime ELSE response.latest_updated_at]

\* a retry whose error is swallowed: the cycle goes on with no leader project
ListProjectsFromLeader_SwallowError(ldr, cursor, fails, order) ==
    LET response == LeaderListProjects(ldr, IF fails = 0 THEN cursor ELSE NoDatetime, order)
    IN  [raised            |-> FALSE,
         calls             |-> IF fails = 0 THEN 1 ELSE 2,
         call_log          |-> IF fails = 0
                               THEN <<[updated_after |-> cursor, raised |-> FALSE]>>
                               ELSE <<[updated_after |-> cursor, raised |-> TRUE],
                                      [updated_after |-> NoDatetime, raised |-> fails >= 2]>>,
         leader_projects   |-> IF fails >= 2 THEN <<>> ELSE response.projects,
         latest_updated_at |-> IF fails >= 2 THEN NoDatetime ELSE response.latest_updated_at]

\* Member._list_projects_from_leader: the first call passes the cursor; when it
\* raises, a second call passes no filter; when that raises too, the error leaves.
\* call_log is the calls made of leader_client.list_projects, in order
ListProjectsFromLeader(ldr, cursor, fails, order) ==
    LET response == LeaderListProjects(ldr, IF fails = 0 THEN cursor ELSE NoDatetime, order)
    IN  [raised            |-> fails >= 2,
         calls             |-> IF fails = 0 THEN 1 ELSE 2,
         call_log          |-> IF fails = 0
                               THEN <<[updated_after |-> cursor, raised |-> FALSE]>>
                               ELSE <<[updated_after |-> cursor, raised |-> TRUE],
                                      [updated_after |-> NoDatetime, raised |-> fails >= 2]>>,
         leader_projects   |-> IF fails >= 2 THEN <<>> ELSE response.projects,
         latest_updated_at |-> IF fails >= 2 THEN NoDatetime ELSE response.latest_updated_at]

\* a skip condition that forgets the non-terminal, not-yet-known projects
SkipLeaderProject_OnlyDeletion(leader_project, db_projects_names, tsk) ==
    ProjectDeletionBackgroundTaskExists(tsk, leader_project.name)

\* a skip condition that leaves out every project that is not yet known
SkipLeaderProject_AllUnknown(leader_project, db_projects_names, tsk) ==
    \/ leader_project.name \notin db_projects_names
    \/ ProjectDeletionBackgroundTaskExists(tsk, leader_project.name)

\* the import pass's condition to skip a leader project
SkipLeaderProject(leader_project, db_projects_names, tsk) ==
    \/ /\ leader_project.project.state \notin TerminalStates
       /\ leader_project.name \notin db_projects_names
    \/ ProjectDeletionBackgroundTaskExists(tsk, leader_project.name)

\* an import filter that also leaves locally archived projects alone
FilteredProjects_KeepArchived(db_projects, leader_projects, tsk) ==
    SelectSeq(leader_projects,
              LAMBDA lp :
                /\ ~SkipLeaderProject(lp, {db_projects[i].name : i \in 1..Len(db_projects)}, tsk)
                /\ ~\E i \in 1..Len(db_projects) :
                        /\ db_projects[i].name = lp.name
                        /\ db_projects[i].project.state = Archived)

\* filtered_projects: the leader projects the import pass does not skip
FilteredProjects(db_projects, leader_projects, tsk) ==
    SelectSeq(leader_projects,
              LAMBDA lp : ~SkipLeaderProject(lp, {db_projects[i].name : i \in 1..Len(db_projects)}, tsk))

\* the loop storing the filtered projects; the store of filtered_projects[fail_at]
\* raises (fail_at = 0: none does), which ends the loop and the cycle
RECURSIVE StoreLoop(_, _, _, _)
StoreLoop(d, filtered_projects, i, fail_at) ==
    IF i > Len(filtered_projects) THEN [db |-> d, raised |-> FALSE, stored |-> i - 1]
    ELSE IF i = fail_at THEN [db |-> d, raised |-> TRUE, stored |-> i - 1]
    ELSE StoreLoop(CrudStoreProject(d, filtered_projects[i].name, filtered_projects[i].project),
                   filtered_projects, i + 1, fail_at)

\* Member._store_projects_from_leader
StoreProjectsFromLeader(d, db_projects, leader_projects, tsk, fail_at) ==
    StoreLoop(d, FilteredProjects(db_projects, leader_projects, tsk), 1, fail_at)

\* an archive pass that forgets to remove the names the leader listed
ProjectsToArchive_All(db_projects, leader_projects) == db_projects

\* projects_to_archive: the snapshot's projects whose names the leader did not list
ProjectsToArchive(db_projects, leader_projects) ==
    SelectSeq(db_projects,
              LAMBDA p : p.name \notin {leader_projects[i].name : i \in 1..Len(leader_projects)})

\* an archive round that gives up after the first patch that raised
ArchiveOne_StopAfterFailure(acc, project_to_archive, patch_fails) ==
    IF \/ acc.failed # {}
       \/ project_to_archive.name \in patch_fails
       \/ project_to_archive.name \notin DOMAIN acc.db
    THEN [acc EXCEPT !.failed = @ \cup {project_to_archive.name}]
    ELSE [acc EXCEPT !.db = CrudPatchProject(@, project_to_archive.name,
                                   [project_to_archive.project EXCEPT !.state = Archived]),
                     !.patched = @ \cup {project_to_archive.name}]

\* an archive round that deletes the row instead of patching it
ArchiveOne_Delete(acc, project_to_archive, patch_fails) ==
    IF project_to_archive.name \in patch_fails \/ project_to_archive.name \notin DOMAIN acc.db
    THEN [acc EXCEPT !.failed = @ \cup {project_to_archive.name}]
    ELSE [acc EXCEPT !.db = [n \in DOMAIN @ \ {project_to_archive.name} |-> @[n]],
                     !.patched = @ \cup {project_to_archive.name}]

\* one round of the archive loop: the patch of a name in patch_fails, or of a
\* missing row, raises; the error is logged and the loop goes on
ArchiveOne(acc, project_to_archive, patch_fails) ==
    IF project_to_archive.name \in patch_fails \/ project_to_archive.name \notin DOMAIN acc.db
    THEN [acc EXCEPT !.failed = @ \cup {project_to_archive.name}]
    ELSE [acc EXCEPT !.db = CrudPatchProject(@, project_to_archive.name,
                                   [project_to_archive.project EXCEPT !.state = Archived]),
                     !.patched = @ \cup {project_to_archive.name}]

RECURSIVE ArchiveLoop(_, _, _, _)
ArchiveLoop(acc, projects_to_archive, i, patch_fails) ==
    IF i > Len(projects_to_archive) THEN acc
    ELSE ArchiveLoop(ArchiveOne(acc, projects_to_archive[i], patch_fails),
                     projects_to_archive, i + 1, patch_fails)

\* Member._archive_projects_missing_from_leader
ArchiveProjectsMissingFromLeader(d, db_projects, leader_projects, patch_fails) ==
    ArchiveLoop([db |-> d, patched |-> {}, failed |-> {}],
                ProjectsToArchive(db_projects, leader_projects), 1, patch_fails)

\* a cursor update without the floor at the epoch
UpdateLatestSyncedDatetime_NoFloor(cursor, latest_updated_at) ==
    IF latest_updated_at # NoDatetime THEN latest_updated_at ELSE cursor

\* a cursor update that forgets the cursor when the leader sent no latest stamp
UpdateLatestSyncedDatetime_ResetOnNone(cursor, latest_updated_at) ==
    IF latest_updated_at # NoDatetime
    THEN IF latest_updated_at[1] < Epoch THEN Datetime(Epoch) ELSE latest_updated_at
    ELSE NoDatetime

\* Member._update_latest_synced_datetime
UpdateLatestSyncedDatetime(cursor, latest_updated_at) ==
    IF latest_updated_at # NoDatetime
    THEN IF latest_updated_at[1] < Epoch THEN Datetime(Epoch) ELSE latest_updated_at
    ELSE cursor

\* a cycle that archives whatever full_sync says
RunsArchivePass_Always(full_sync) == TRUE

\* whether _sync_projects runs the archive pass
RunsArchivePass(full_sync) == full_sync

\* what the history records of an operation that is not a sync cycle
NoLast == [kind |-> "none"]

\* a clean full cycle: full_sync=True, no call of it raised
CleanFullSync(l) ==
    /\ l.kind = "sync"
    /\ l.full_sync
    /\ l.outcome = "done"
    /\ l.fails = 0
    /\ l.patch_failed = {}

\* Member._sync_projects, one whole cycle, as a function of what it reads and
\* of the calls that raise: `fails` leader list calls, the store of the
\* fail_at-th filtered project, the patches of the names in patch_fails
\* (the history keeps them as patch_failed)
SyncCycle(full_sync, fails, leader_order, db_order, fail_at, patch_fails) ==
    LET fetched     == ListProjectsFromLeader(leader, synced_until, fails, leader_order)
        db_projects == CrudListProjects(db, db_order)
        imported    == StoreProjectsFromLeader(db, db_projects, fetched.leader_projects,
                                               tasks, fail_at)
        archives    == ~fetched.raised /\ ~imported.raised /\ RunsArchivePass(full_sync)
        archived    == IF archives
                       THEN ArchiveProjectsMissingFromLeader(imported.db, db_projects,
                                                             fetched.leader_projects, patch_fails)
                       ELSE [db |-> imported.db, patched |-> {}, failed |-> {}]
        outcome     == IF fetched.raised THEN "leader_failed"
                       ELSE IF imported.raised THEN "store_failed"
                       ELSE "done"
    IN  [db           |-> IF fetched.raised THEN db ELSE archived.db,
         synced_until |-> IF outcome = "done"
                          THEN UpdateLatestSyncedDatetime(synced_until, fetched.latest_updated_at)
                          ELSE synced_until,
         last         |-> [kind          |-> "sync",
                           full_sync     |-> full_sync,
                           outcome       |-> outcome,
                           fails         |-> fails,
                           call_log      |-> fetched.call_log,
                           db_before     |-> db,
                           cursor_before |-> synced_until,
                           listed        |-> {fetched.leader_projects[i].name :
                                                i \in 1..Len(fetched.leader_projects)},
                           latest        |-> fetched.latest_updated_at,
                           archive_ran   |-> archives,
                           patched       |-> archived.patched,
                           patch_failed  |-> IF archives THEN patch_fails ELSE {},
                           after_full    |-> CleanFullSync(last)]]

\* the calls of a cycle that can raise, given what the cycle reads: the store
\* of a filtered project, the patch of a project to archive
StoreCalls(fails, leader_order, db_order) ==
    Len(FilteredProjects(CrudListProjects(db, db_order),
            ListProjectsFromLeader(leader, synced_until, fails, leader_order).leader_projects,
            tasks))

PatchCalls(full_sync, fails, leader_order, db_order, fail_at) ==
    IF fails < 2 /\ fail_at = 0 /\ RunsArchivePass(full_sync)
    THEN LET to_archive == ProjectsToArchive(CrudListProjects(db, db_order),
                 ListProjectsFromLeader(leader, synced_until, fails, leader_order).leader_projects)
         IN  {to_archive[i].name : i \in 1..Len(to_archive)}
    ELSE {}

\* a sync cycle: _sync_projects(full_sync) from its first line to its last,
\* whoever calls it
SyncStep(full_sync) ==
    \E fails \in 0..2 :
    \E leader_order \in Orders(DOMAIN leader) :
    \E db_order \in Orders(DOMAIN db) :
    \E fail_at \in 0..StoreCalls(fails, leader_order, db_order) :
    \E patch_fails \in SUBSET PatchCalls(full_sync, fails, leader_order, db_order, fail_at) :
    \E result \in {SyncCycle(full_sync, fails, leader_order, db_order, fail_at, patch_fails)} :
        /\ db' = result.db
        /\ synced_until' = result.synced_until
        /\ last' = result.last
        /\ UNCHANGED <<leader, tasks>>

\* a sync cycle of an initialized chief
SyncProjects(full_sync) ==
    /\ SyncStep(full_sync)
    /\ UNCHANGED aux

----------------------------------------------------------------------------
\* The environment: the leader's registry and the background tasks

\* a project is created or updated at the leader
LeaderStoreProject(name, project) ==
    /\ leader' = CrudStoreProject(leader, name, project)
    /\ last' = NoLast
    /\ UNCHANGED <<db, tasks, synced_until>>
    /\ UNCHANGED aux

\* a project is deleted at the leader
LeaderDeleteProject(name) ==
    /\ name \in DOMAIN leader
    /\ leader' = [n \in DOMAIN leader \ {name} |-> leader[n]]
    /\ last' = NoLast
    /\ UNCHANGED <<db, tasks, synced_until>>
    /\ UNCHANGED aux

\* a deletion background task becomes active
StartDeletionTask(kind, name) ==
    /\ <<kind, name>> \notin tasks
    /\ Cardinality(tasks) < MaxTasks
    /\ tasks' = tasks \cup {<<kind, name>>}
    /\ last' = NoLast
    /\ UNCHANGED <<db, leader, synced_until>>
    /\ UNCHANGED aux

\* a deletion background task ends
FinishDeletionTask(kind, name) ==
    /\ <<kind, name>> \in tasks
    /\ tasks' = tasks \ {<<kind, name>>}
    /\ last' = NoLast
    /\ UNCHANGED <<db, leader, synced_until>>
    /\ UNCHANGED aux

----------------------------------------------------------------------------
Stores == UNION {[S -> Projects] : S \in SUBSET Names}

\* a Member whose initialization is not followed, a Request Router that was not
\* called, no sync cycle in progress
NoMember == [pc |-> "untracked"]
NoCall == [op |-> "none"]
Idle == [pc |-> "idle"]

\* Member.initialize sets the cursor to None; the Local Store and the leader
\* hold whatever they held
Init ==
    /\ db \in Stores
    /\ leader \in Stores
    /\ tasks = {}
    /\ synced_until = NoDatetime
    /\ last = NoLast
    /\ member = NoMember
    /\ router = NoCall
    /\ cycle = Idle

Next ==
    \/ \E full_sync \in BOOLEAN : SyncProjects(full_sync)
    \/ \E name \in Names, project \in Projects : LeaderStoreProject(name, project)
    \/ \E name \in Names : LeaderDeleteProject(name)
    \/ \E kind \in DeletionTaskKinds, name \in Names : StartDeletionTask(kind, name)
    \/ \E kind \in DeletionTaskKinds, name \in Names : FinishDeletionTask(kind, name)

Spec == Init /\ [][Next]_vars

\* Full syncs over three local projects of which the leader holds at most one,
\* so that an archive pass meets two local projects missing from the leader
\* beside one that the leader lists
ArchiveNames == Names \cup {"p3"}

InitArchive ==
    /\ db \in [ArchiveNames -> Projects]
    /\ leader \in UNION {[S -> Projects] : S \in {{}} \cup {{n} : n \in ArchiveNames}}
    /\ tasks = {}
    /\ synced_until = NoDatetime
    /\ last = NoLast
    /\ member = NoMember
    /\ router = NoCall
    /\ cycle = Idle

NextArchive == SyncProjects(TRUE)

SpecArchive == InitArchive /\ [][NextArchive]_vars

----------------------------------------------------------------------------
\* Member.initialize, step by step: the configuration is read and the leader
\* client chosen, a chief runs one full sync, then _start_periodic_sync.

LeaderNames == {"iguazio", "nop", "other"}
Intervals == {-1, 0, 1}
MaxSyncs == 2
MaxSpecLen == 1

Configs == [is_chief : BOOLEAN, leader_name : LeaderNames,
            access_key : BOOLEAN, interval : Intervals]

NewMember(config) ==
    [pc |-> "new", config |-> config, error |-> "none",
     initial_sync |-> "none", periodic |-> FALSE, syncs |-> 0]

\* a choice of the leader client that does not look at the access key
ConfigureLeader_NoAccessKeyCheck(leader_name, access_key) ==
    IF leader_name \in {"iguazio", "nop"} THEN "none" ELSE "not_implemented"

\* the choice of the leader client: the error that it raises, "none" without
ConfigureLeader(leader_name, access_key) ==
    IF leader_name = "iguazio"
    THEN IF ~access_key THEN "invalid_argument" ELSE "none"
    ELSE IF leader_name = "nop" THEN "none" ELSE "not_implemented"

\* a timer that an interval of zero registers too
StartsPeriodicSync_NonNegative(interval) == interval >= 0

\* Member._start_periodic_sync registers the timer under this condition
StartsPeriodicSync(interval) == interval > 0

\* initialize up to the assignment of the cursor
InitializeConfigure ==
    /\ member.pc = "new"
    /\ LET error == ConfigureLeader(member.config.leader_name, member.config.access_key)
       IN  member' = [member EXCEPT
                        !.error = error,
                        !.pc = IF error # "none" THEN "failed"
                               ELSE IF member.config.is_chief THEN "initial_sync"
                               ELSE "initialized"]
    /\ synced_until' = NoDatetime
    /\ last' = NoLast
    /\ UNCHANGED <<db, leader, tasks, router, cycle>>

\* the full sync of a chief, whose exception is logged
InitializeSync ==
    /\ member.pc = "initial_sync"
    /\ SyncStep(TRUE)
    /\ member' = [member EXCEPT
                    !.pc = "start_periodic",
                    !.initial_sync = IF last'.outcome = "done" THEN "done" ELSE "raised",
                    !.syncs = @ + 1]
    /\ UNCHANGED <<router, cycle>>

\* the last line of initialize for a chief
InitializeStartPeriodicSync ==
    /\ member.pc = "start_periodic"
    /\ member' = [member EXCEPT
                    !.pc = "initialized",
                    !.periodic = StartsPeriodicSync(member.config.interval)]
    /\ last' = NoLast
    /\ UNCHANGED <<db, leader, tasks, synced_until, router, cycle>>

\* the registered timer fires: _sync_projects() with full_sync left at False
PeriodicSync ==
    /\ member.pc = "initialized"
    /\ member.periodic
    /\ member.syncs < MaxSyncs
    /\ SyncStep(FALSE)
    /\ member' = [member EXCEPT !.syncs = @ + 1]
    /\ UNCHANGED <<router, cycle>>

InitStores == UNION {[S -> Projects] : S \in SUBSET {"p1"}}

InitInitialize ==
    /\ db \in InitStores
    /\ leader \in InitStores
    /\ tasks = {}
    /\ synced_until = NoDatetime
    /\ last = NoLast
    /\ member \in {NewMember(config) : config \in Configs}
    /\ router = NoCall
    /\ cycle = Idle

NextInitialize ==
    \/ InitializeConfigure
    \/ InitializeSync
    \/ InitializeStartPeriodicSync
    \/ PeriodicSync

SpecInitialize == InitInitialize /\ [][NextInitialize]_vars

----------------------------------------------------------------------------
\* The Request Router: Member.create_project and Member.store_project.  A
\* handler is one step.  It returns the Local Store and the leader's registry
\* after it, the calls it made in order, the error it raised ("none" without)
\* and the pair it returned.

\* a call of the handler: of the Member itself, of the Local Store through a
\* database session, or of the Leader Client
Call(target, op, session, name) ==
    [target |-> target, op |-> op, session |-> session, name |-> name]

NoProject == <<>>
Row(name, project) == <<[name |-> name, project |-> project]>>

Raised(d, ldr, log, error) ==
    [db |-> d, leader |-> ldr, log |-> log, raised |-> error,
     project |-> NoProject, is_running_in_background |-> FALSE]

Returned(d, ldr, log, project, is_running_in_background) ==
    [db |-> d, leader |-> ldr, log |-> log, raised |-> "none",
     project |-> project, is_running_in_background |-> is_running_in_background]

\* crud.Projects.get_project: the row, or MLRunNotFoundError
CrudGetProject(d, name) ==
    [not_found |-> name \notin DOMAIN d,
     project   |-> IF name \in DOMAIN d THEN Row(name, d[name]) ELSE NoProject]

\* what the leader does with a request that it did not refuse: in the
\* background nothing yet; otherwise it registers the project, and it has
\* written it to the Local Store with a request of its own, or has not
LeaderAnswers == {"raises", "background", "written", "not_written"}

LeaderWrite(d, ldr, name, project, answer) ==
    [db     |-> IF answer = "written" THEN CrudStoreProject(d, name, project) ELSE d,
     leader |-> IF answer \in {"written", "not_written"}
                THEN CrudStoreProject(ldr, name, project) ELSE ldr]

\* the projects of the requests and of the stores of the Router: their stamps
\* play no part in a call; their spec is a list, which the merge strategies
\* of a patch treat differently
ProjectSpecs == {<<>>, <<"a">>}

RouterProjects ==
    [state : ProjectStates, updated_at : {Epoch + 1}, spec : ProjectSpecs]

\* a request: the name of the path, the project of the body and its name,
\* whether _validate_project accepts it, whether is_request_from_leader holds
Requests ==
    [name : Names, project_name : Names, project : RouterProjects,
     valid : BOOLEAN, from_leader : BOOLEAN]

\* what the collaborators do during the call: the first call of the Local
\* Store raises or not, the Leader Client answers
Envs(request) ==
    IF ~request.valid THEN {[db_raises |-> FALSE, answer |-> "written"]}
    ELSE IF request.from_leader THEN [db_raises : BOOLEAN, answer : {"written"}]
    ELSE [db_raises : BOOLEAN, answer : LeaderAnswers]

\* a create that calls the Leader Client for a request of the leader too
CreateForwardsToLeader_Always(from_leader) == TRUE

\* Member.create_project: the branch on is_request_from_leader
CreateForwardsToLeader(from_leader) == ~from_leader

\* a create that reads the Local Store whatever the leader answered
ReadsAfterCreate_Always(is_running_in_background) == TRUE

\* Member.create_project: if not is_running_in_background
ReadsAfterCreate(is_running_in_background) == ~is_running_in_background

\* a store that never takes the create path
StoreTakesCreatePath_Never(not_found) == FALSE

\* Member.store_project: except MLRunNotFoundError
StoreTakesCreatePath(not_found) == not_found

\* a store that writes the Local Store whoever asks
StoreWritesLocally_Always(from_leader) == TRUE

\* Member.store_project: the branch on is_request_from_leader
StoreWritesLocally(from_leader) == from_leader

\* Member.create_project
CreateProject(d, ldr, request, env) ==
    LET name == request.project_name
        validated == <<Call("member", "validate_project", "none", name)>>
        created == validated \o <<Call("db", "create_project", "caller", name)>>
        forwarded == validated \o <<Call("leader", "create_project", "leader", name)>>
        is_running_in_background == env.answer = "background"
        after == LeaderWrite(d, ldr, name, request.project, env.answer)
        read == CrudGetProject(after.db, name)
        reread == forwarded \o <<Call("db", "get_project", "new", name)>>
    IN  IF ~request.valid THEN Raised(d, ldr, validated, "invalid")
        ELSE IF ~CreateForwardsToLeader(request.from_leader)
        THEN IF env.db_raises THEN Raised(d, ldr, created, "db_error")
             ELSE Returned(CrudStoreProject(d, name, request.project), ldr, created,
                           Row(name, request.project), FALSE)
        ELSE IF env.answer = "raises" THEN Raised(d, ldr, forwarded, "leader_error")
        ELSE IF ~ReadsAfterCreate(is_running_in_background)
        THEN Returned(after.db, after.leader, forwarded, NoProject, is_running_in_background)
        ELSE IF read.not_found THEN Raised(after.db, after.leader, reread, "not_found")
        ELSE Returned(after.db, after.leader, reread, read.project, is_running_in_background)

\* Member.store_project
StoreProject(d, ldr, request, env) ==
    LET name == request.name
        validated == <<Call("member", "validate_project", "none", request.project_name)>>
        stored == validated \o <<Call("db", "store_project", "caller", name)>>
        looked == validated \o <<Call("db", "get_project", "caller", name)>>
        found == CrudGetProject(d, name)
        create_path == CreateProject(d, ldr, request, [env EXCEPT !.db_raises = FALSE])
        updated == looked \o <<Call("leader", "update_project", "leader", name)>>
        after == LeaderWrite(d, ldr, name, request.project,
                             IF env.answer = "background" THEN "not_written" ELSE env.answer)
        read == CrudGetProject(after.db, name)
        reread == updated \o <<Call("db", "get_project", "caller", name)>>
    IN  IF ~request.valid THEN Raised(d, ldr, validated, "invalid")
        ELSE IF StoreWritesLocally(request.from_leader)
        THEN IF env.db_raises THEN Raised(d, ldr, stored, "db_error")
             ELSE Returned(CrudStoreProject(d, name, request.project), ldr, stored,
                           Row(request.project_name, request.project), FALSE)
        ELSE IF env.db_raises THEN Raised(d, ldr, looked, "db_error")
        ELSE IF StoreTakesCreatePath(found.not_found)
        THEN [create_path EXCEPT !.log = looked \o @]
        ELSE IF env.answer = "raises" THEN Raised(d, ldr, updated, "leader_error")
        ELSE IF read.not_found THEN Raised(after.db, after.leader, reread, "not_found")
        ELSE Returned(after.db, after.leader, reread, read.project, FALSE)

\* a call of the Router, from the request to the return or the raise
RouterCall(op, request, env, result) ==
    /\ router = NoCall
    /\ db' = result.db
    /\ leader' = result.leader
    /\ router' = [op |-> op, request |-> request, env |-> env,
                  db_before |-> db, leader_before |-> leader,
                  log |-> result.log, raised |-> result.raised,
                  project |-> result.project,
                  is_running_in_background |-> result.is_running_in_background]
    /\ UNCHANGED <<tasks, synced_until, last, member, cycle>>

RouterCreateProject ==
    /\ router = NoCall
    /\ \E request \in Requests : \E env \in Envs(request) :
       \E result \in {CreateProject(db, leader, request, env)} :
           RouterCall("create_project", request, env, result)

RouterStoreProject ==
    /\ router = NoCall
    /\ \E request \in Requests : \E env \in Envs(request) :
       \E result \in {StoreProject(db, leader, request, env)} :
           RouterCall("store_project", request, env, result)

\* Member.delete_project.  The request: the name, whether it is of the leader,
\* the caller's wait_for_completion.  The Leader Client's delete raises, or
\* returns whether it completed; when it completed the leader has dropped the
\* project, and it has had the Local Store's row deleted with a request of its
\* own, or has not yet.  A caller that waits gets no answer before completion.
DeleteRequests == [name : Names, from_leader : BOOLEAN, wait_for_completion : BOOLEAN]

LeaderDeleteAnswers == {"raises", "not_completed", "completed", "completed_and_deleted"}

DeleteEnvs(request) ==
    IF request.from_leader THEN [db_raises : BOOLEAN, answer : {"completed"}]
    ELSE [db_raises : {FALSE},
          answer : IF request.wait_for_completion
                   THEN LeaderDeleteAnswers \ {"not_completed"} ELSE LeaderDeleteAnswers]

LeaderDelete(d, ldr, name, answer) ==
    [db        |-> IF answer = "completed_and_deleted" THEN CrudDeleteProject(d, name) ELSE d,
     leader    |-> IF answer \in {"completed", "completed_and_deleted"}
                   THEN CrudDeleteProject(ldr, name) ELSE ldr,
     completed |-> answer \in {"completed", "completed_and_deleted"}]

DeleteCall(name, wait_for_completion) ==
    [target |-> "leader", op |-> "delete_project", session |-> "auth_info",
     name |-> name, wait_for_completion |-> wait_for_completion]

\* a delete that is never forwarded
DeleteForwardsToLeader_Never(from_leader) == FALSE

\* Member.delete_project: the branch on is_request_from_leader
DeleteForwardsToLeader(from_leader) == ~from_leader

DeleteProject(d, ldr, request, env) ==
    LET name == request.name
        deleted == <<Call("db", "delete_project", "caller", name)>>
        forwarded == <<DeleteCall(name, request.wait_for_completion)>>
        after == LeaderDelete(d, ldr, name, env.answer)
    IN  IF ~DeleteForwardsToLeader(request.from_leader)
        THEN IF env.db_raises
             THEN [db |-> d, leader |-> ldr, log |-> deleted, raised |-> "db_error",
                   returned |-> FALSE]
             ELSE [db |-> CrudDeleteProject(d, name), leader |-> ldr, log |-> deleted,
                   raised |-> "none", returned |-> FALSE]
        ELSE IF env.answer = "raises"
        THEN [db |-> d, leader |-> ldr, log |-> forwarded, raised |-> "leader_error",
              returned |-> FALSE]
        ELSE [db |-> after.db, leader |-> after.leader, log |-> forwarded,
              raised |-> "none", returned |-> after.completed]

RouterDeleteProject ==
    /\ router = NoCall
    /\ \E request \in DeleteRequests : \E env \in DeleteEnvs(request) :
       \E result \in {DeleteProject(db, leader, request, env)} :
           /\ db' = result.db
           /\ leader' = result.leader
           /\ router' = [op |-> "delete_project", request |-> request, env |-> env,
                         db_before |-> db, leader_before |-> leader,
                         log |-> result.log, raised |-> result.raised,
                         returned |-> result.returned]
    /\ UNCHANGED <<tasks, synced_until, last, member, cycle>>

\* Member.list_projects.  The request: the format, whether it is of the leader.
\* The Local Store lists its rows in some order, names alone in the format
\* name_only; the Leader Client's formatter wraps a project.
ProjectsFormats == {"full", "name_only", "leader"}

ListRequests == [format : ProjectsFormats, from_leader : BOOLEAN]

CrudListProjectsFormat(d, order, format) ==
    IF format = "name_only" THEN order ELSE CrudListProjects(d, order)

FormatAsLeaderProject(project) == [leader_project |-> project]

\* a listing that is refused to nobody
ListRefused_Never(format, from_leader) == FALSE

\* Member.list_projects: the leader format is for the leader alone
ListRefused(format, from_leader) == format = "leader" /\ ~from_leader

ListProjects(d, request, order) ==
    LET projects_output == CrudListProjectsFormat(d, order, request.format)
        listed == <<Call("db", "list_projects", "caller", "")>>
        formatted == [i \in 1..Len(projects_output) |->
                        Call("leader", "format_as_leader_project", "none",
                             projects_output[i].name)]
    IN  IF ListRefused(request.format, request.from_leader)
        THEN [log |-> <<>>, raised |-> "access_denied", output |-> <<>>]
        ELSE IF request.format = "leader"
        THEN [log |-> listed \o formatted, raised |-> "none",
              output |-> [i \in 1..Len(projects_output) |->
                            FormatAsLeaderProject(projects_output[i])]]
        ELSE [log |-> listed, raised |-> "none", output |-> projects_output]

RouterListProjects ==
    /\ router = NoCall
    /\ \E request \in ListRequests : \E order \in Orders(DOMAIN db) :
       \E result \in {ListProjects(db, request, order)} :
           router' = [op |-> "list_projects", request |-> request, order |-> order,
                      db_before |-> db, leader_before |-> leader,
                      log |-> result.log, raised |-> result.raised,
                      output |-> result.output]
    /\ UNCHANGED <<db, leader, tasks, synced_until, last, member, cycle>>

\* Member.patch_project.  The patch is a dict of some of a project's fields;
\* the patch mode names the merge strategy.
PatchModes == {"replace", "additive"}

Patches ==
    {<<>>} \cup [state : ProjectStates] \cup [spec : ProjectSpecs]
           \cup [state : ProjectStates, spec : ProjectSpecs]

ListFields == {"spec"}

PatchRequests ==
    [name : Names, project : Patches, patch_mode : PatchModes, from_leader : BOOLEAN]

\* a merge that replaces whatever the strategy
Merge_AlwaysReplace(current, patch, strategy) ==
    [field \in DOMAIN current \cup DOMAIN patch |->
        IF field \in DOMAIN patch THEN patch[field] ELSE current[field]]

\* mergedeep.merge(current_project_dict, project, strategy): a key of the
\* patch overrides the key of the row; under the additive strategy a list of
\* the patch is appended to the list of the row
Merge(current, patch, strategy) ==
    [field \in DOMAIN current \cup DOMAIN patch |->
        IF field \notin DOMAIN patch THEN current[field]
        ELSE IF field \notin DOMAIN current THEN patch[field]
        ELSE IF strategy = "additive" /\ field \in ListFields
        THEN current[field] \o patch[field]
        ELSE patch[field]]

\* a patch that is refused to nobody
PatchRefused_Never(from_leader) == FALSE

\* Member.patch_project: the branch on is_request_from_leader
PatchRefused(from_leader) == from_leader

\* Member.patch_project up to the call of store_project: the refusal, the
\* read of the current row, the merge
PatchProjectRead(d, request) ==
    LET name == request.name
        read == <<Call("db", "get_project", "caller", name)>>
        current_project == CrudGetProject(d, name)
    IN  IF PatchRefused(request.from_leader)
        THEN [pc |-> "returned", log |-> <<>>, raised |-> "not_implemented",
              current |-> NoProject, patched_project |-> NoProject]
        ELSE IF current_project.not_found
        THEN [pc |-> "returned", log |-> read, raised |-> "not_found",
              current |-> NoProject, patched_project |-> NoProject]
        ELSE [pc |-> "merged", log |-> read, raised |-> "none",
              current |-> current_project.project,
              patched_project |->
                  Row(name, Merge(d[name], request.project, request.patch_mode))]

RouterPatchProjectRead ==
    /\ router = NoCall
    /\ \E request \in PatchRequests : \E result \in {PatchProjectRead(db, request)} :
           /\ result.pc = "merged" => Len(result.patched_project[1].project.spec) <= MaxSpecLen
           /\ router' = [op |-> "patch_project", pc |-> result.pc, request |-> request,
                         db_before |-> db, leader_before |-> leader,
                         log |-> result.log, raised |-> result.raised,
                         current |-> result.current,
                         patched_project |-> result.patched_project,
                         deleted_between |-> FALSE,
                         project |-> NoProject, is_running_in_background |-> FALSE]
    /\ UNCHANGED <<db, leader, tasks, synced_until, last, member, cycle>>

\* a delete request of the leader for the project that a patch has read and
\* not yet stored: another request, served meanwhile
RouterDeleteDuringPatch ==
    /\ router.op = "patch_project"
    /\ router.pc = "merged"
    /\ router.request.name \in DOMAIN db
    /\ db' = CrudDeleteProject(db, router.request.name)
    /\ router' = [router EXCEPT !.deleted_between = TRUE]
    /\ UNCHANGED <<leader, tasks, synced_until, last, member, cycle>>

\* Member.patch_project: return self.store_project(..., patched_project, ...)
RouterPatchProjectStore ==
    /\ router.op = "patch_project"
    /\ router.pc = "merged"
    /\ \E valid \in BOOLEAN :
       \E request \in {[name         |-> router.request.name,
                         project_name |-> router.patched_project[1].name,
                         project      |-> router.patched_project[1].project,
                         valid        |-> valid,
                         from_leader  |-> router.request.from_leader]} :
       \E env \in Envs(request) :
       \E result \in {StoreProject(db, leader, request, env)} :
           /\ db' = result.db
           /\ leader' = result.leader
           /\ router' = [router EXCEPT !.pc = "returned",
                                       !.log = @ \o result.log,
                                       !.raised = result.raised,
                                       !.project = result.project,
                                       !.is_running_in_background =
                                           result.is_running_in_background]
    /\ UNCHANGED <<tasks, synced_until, last, member, cycle>>

\* the caller has the answer
RouterReturn ==
    /\ router # NoCall
    /\ router.op = "patch_project" => router.pc = "returned"
    /\ router' = NoCall
    /\ UNCHANGED <<db, leader, tasks, synced_until, last, member, cycle>>

RouterStores == UNION {[S -> RouterProjects] : S \in SUBSET Names}

InitRouter ==
    /\ db \in RouterStores
    /\ leader \in RouterStores
    /\ tasks = {}
    /\ synced_until = NoDatetime
    /\ last = NoLast
    /\ member = NoMember
    /\ router = NoCall
    /\ cycle = Idle

NextRouter ==
    \/ RouterCreateProject
    \/ RouterStoreProject
    \/ RouterDeleteProject
    \/ RouterListProjects
    \/ RouterPatchProjectRead
    \/ RouterDeleteDuringPatch
    \/ RouterPatchProjectStore
    \/ RouterReturn

SpecRouter == InitRouter /\ [][NextRouter]_vars

----------------------------------------------------------------------------
\* A sync cycle step by step, beside deletion tasks that start and finish:
\* every call of the leader, of the Local Store and of the Background Task
\* Registry is a step of its own.  cycle holds the locals of _sync_projects
\* and, as history, the phases entered and the names written.

Phases == <<"fetch_leader", "fetch_db", "import", "archive", "cursor">>

\* a cycle that archives before it imports
PhaseAfter_ArchiveFirst(phase, full_sync) ==
    CASE phase = "fetch_leader" -> "fetch_db"
      [] phase = "fetch_db"     -> IF RunsArchivePass(full_sync) THEN "archive" ELSE "import"
      [] phase = "archive"      -> "import"
      [] phase = "import"       -> "cursor"
      [] phase = "cursor"       -> "done"

\* the statements of _sync_projects in their order
PhaseAfter(phase, full_sync) ==
    CASE phase = "fetch_leader" -> "fetch_db"
      [] phase = "fetch_db"     -> "import"
      [] phase = "import"       -> IF RunsArchivePass(full_sync) THEN "archive" ELSE "cursor"
      [] phase = "archive"      -> "cursor"
      [] phase = "cursor"       -> "done"

\* the first statement of a phase: the import pass starts with its filter loop
PhasePc(phase) == IF phase = "import" THEN "check" ELSE phase

\* the cycle leaves a phase for the next one
Leave(c, phase) ==
    LET next == PhaseAfter(phase, c.full_sync)
    IN  [c EXCEPT !.pc = PhasePc(next),
                  !.i = 1,
                  !.trace = IF next = "done" THEN @ ELSE Append(@, next)]

CycleRunning == cycle.pc \notin {"idle", "done", "raised"}

\* _sync_projects is called and lists the leader's projects
CycleListLeader(full_sync) ==
    /\ ~CycleRunning
    /\ \E fails \in 0..2 : \E order \in Orders(DOMAIN leader) :
       LET fetched == ListProjectsFromLeader(leader, synced_until, fails, order)
           started == [pc |-> "fetch_leader", full_sync |-> full_sync, i |-> 1,
                       leader_projects |-> fetched.leader_projects,
                       latest_updated_at |-> fetched.latest_updated_at,
                       db_projects |-> <<>>, filtered_projects |-> <<>>,
                       trace |-> <<"fetch_leader">>, cursor_before |-> synced_until,
                       checked |-> {}, stored |-> {}, stored_while_deleting |-> {},
                       archived |-> {}, deleted |-> {}]
       IN  cycle' = IF fetched.raised THEN [started EXCEPT !.pc = "raised"]
                    ELSE Leave(started, "fetch_leader")
    /\ UNCHANGED <<db, leader, tasks, synced_until, last, member, router>>

\* crud.Projects().list_projects
CycleListDb ==
    /\ cycle.pc = "fetch_db"
    /\ \E order \in Orders(DOMAIN db) :
         cycle' = Leave([cycle EXCEPT !.db_projects = CrudListProjects(db, order)], "fetch_db")
    /\ UNCHANGED <<db, leader, tasks, synced_until, last, member, router>>

\* one round of the filter loop of _store_projects_from_leader: the registry
\* is asked about this leader project now
CycleCheck ==
    /\ cycle.pc = "check"
    /\ LET leader_project == cycle.leader_projects[cycle.i]
           db_projects_names == {cycle.db_projects[k].name : k \in 1..Len(cycle.db_projects)}
       IN  cycle' =
             IF cycle.i > Len(cycle.leader_projects)
             THEN [cycle EXCEPT !.pc = "store", !.i = 1]
             ELSE IF SkipLeaderProject(leader_project, db_projects_names, tasks)
             THEN [cycle EXCEPT !.i = @ + 1,
                                !.checked = @ \cup {leader_project.name}]
             ELSE [cycle EXCEPT !.i = @ + 1,
                                !.checked = @ \cup {leader_project.name},
                                !.filtered_projects = Append(@, leader_project)]
    /\ UNCHANGED <<db, leader, tasks, synced_until, last, member, router>>

\* one round of the store loop of _store_projects_from_leader; a store that
\* raises ends the cycle
CycleStore ==
    /\ cycle.pc = "store"
    /\ IF cycle.i > Len(cycle.filtered_projects)
       THEN /\ cycle' = Leave(cycle, "import")
            /\ db' = db
       ELSE LET project == cycle.filtered_projects[cycle.i]
            IN  \E raises \in BOOLEAN :
                  IF raises
                  THEN /\ cycle' = [cycle EXCEPT !.pc = "raised"]
                       /\ db' = db
                  ELSE /\ db' = CrudStoreProject(db, project.name, project.project)
                       /\ cycle' = [cycle EXCEPT
                             !.i = @ + 1,
                             !.stored = @ \cup {project.name},
                             !.stored_while_deleting =
                                 IF ProjectDeletionBackgroundTaskExists(tasks, project.name)
                                 THEN @ \cup {project.name} ELSE @]
    /\ UNCHANGED <<leader, tasks, synced_until, last, member, router>>

\* one round of the loop of _archive_projects_missing_from_leader
CycleArchive ==
    /\ cycle.pc = "archive"
    /\ LET projects_to_archive == ProjectsToArchive(cycle.db_projects, cycle.leader_projects)
       IN  IF cycle.i > Len(projects_to_archive)
           THEN /\ cycle' = Leave(cycle, "archive")
                /\ db' = db
           ELSE \E raises \in BOOLEAN :
                LET project_to_archive == projects_to_archive[cycle.i]
                    round == ArchiveOne([db |-> db, patched |-> {}, failed |-> {}],
                                        project_to_archive,
                                        IF raises THEN {project_to_archive.name} ELSE {})
                IN  /\ db' = round.db
                    /\ cycle' = [cycle EXCEPT !.i = @ + 1,
                                              !.archived = @ \cup round.patched]
    /\ UNCHANGED <<leader, tasks, synced_until, last, member, router>>

\* _update_latest_synced_datetime, and _sync_projects returns
CycleCursor ==
    /\ cycle.pc = "cursor"
    /\ synced_until' = UpdateLatestSyncedDatetime(synced_until, cycle.latest_updated_at)
    /\ cycle' = Leave(cycle, "cursor")
    /\ UNCHANGED <<db, leader, tasks, last, member, router>>

\* a delete request of the leader is served while a cycle runs, no deletion
\* task of the project being active: Member.delete_project deletes the row.
\* The cycle does not see it; the history notes a row that goes after the
\* cycle listed the Local Store and before the import pass stored that project.
\* (A row deleted between two cycles gives a Local Store that InitSteps has.)
DeleteProjectFromLeader(name) ==
    /\ CycleRunning
    /\ name \in DOMAIN db
    /\ ~ProjectDeletionBackgroundTaskExists(tasks, name)
    /\ db' = CrudDeleteProject(db, name)
    /\ cycle' = IF /\ cycle.pc \in {"check", "store"}
                   /\ \E k \in 1..Len(cycle.db_projects) : cycle.db_projects[k].name = name
                   /\ name \notin cycle.stored
                THEN [cycle EXCEPT !.deleted = @ \cup {name}]
                ELSE cycle
    /\ UNCHANGED <<leader, tasks, synced_until, last, member, router>>

StepStores ==
    UNION {[S -> {p \in Projects : p.updated_at = Epoch + 1}] : S \in SUBSET Names}

InitSteps ==
    /\ db \in StepStores
    /\ leader \in StepStores
    /\ tasks = {}
    /\ synced_until = NoDatetime
    /\ last = NoLast
    /\ member = NoMember
    /\ router = NoCall
    /\ cycle = Idle

NextSteps ==
    \/ \E full_sync \in BOOLEAN : CycleListLeader(full_sync)
    \/ CycleListDb
    \/ CycleCheck
    \/ CycleStore
    \/ CycleArchive
    \/ CycleCursor
    \/ \E kind \in DeletionTaskKinds, name \in Names : StartDeletionTask(kind, name)
    \/ \E kind \in DeletionTaskKinds, name \in Names : FinishDeletionTask(kind, name)

SpecSteps == InitSteps /\ [][NextSteps]_vars

\* the steps of a cycle beside delete requests of the leader whose deletion
\* tasks are over: no task is active
NextDelete ==
    \/ \E full_sync \in BOOLEAN : CycleListLeader(full_sync)
    \/ CycleListDb
    \/ CycleCheck
    \/ CycleStore
    \/ CycleArchive
    \/ CycleCursor
    \/ \E name \in Names : DeleteProjectFromLeader(name)

SpecDelete == InitSteps /\ [][NextDelete]_vars

----------------------------------------------------------------------------
\* The periodic sync over a leader whose registry has stopped changing: every
\* cycle is incremental and no call of it raises; deletion tasks still start
\* and finish.  The timer fires again and again, which is the fairness of
\* PeriodicSyncSucceeds.

PeriodicSyncSucceeds ==
    /\ \E leader_order \in Orders(DOMAIN leader) :
       \E db_order \in Orders(DOMAIN db) :
       \E result \in {SyncCycle(FALSE, 0, leader_order, db_order, 0, {})} :
           /\ db' = result.db
           /\ synced_until' = result.synced_until
           /\ last' = result.last
    /\ UNCHANGED <<leader, tasks>>
    /\ UNCHANGED aux

InitLive ==
    /\ db \in Stores
    /\ leader \in Stores
    /\ tasks = {}
    /\ synced_until = NoDatetime
    /\ last = NoLast
    /\ member = NoMember
    /\ router = NoCall
    /\ cycle = Idle

NextLive ==
    \/ PeriodicSyncSucceeds
    \/ \E kind \in DeletionTaskKinds, name \in Names : StartDeletionTask(kind, name)
    \/ \E kind \in DeletionTaskKinds, name \in Names : FinishDeletionTask(kind, name)

SpecLive ==
    /\ InitLive
    /\ [][NextLive]_vars
    /\ WF_vars(PeriodicSyncSucceeds)

----------------------------------------------------------------------------
\* Properties of a sync cycle.  In a state that a sync cycle has just produced,
\* last holds what the cycle read: the Local Store and the cursor before it,
\* the names the leader listed, the calls that raised.  The leader's registry
\* and the background tasks are those of the cycle.

IsSync == last.kind = "sync"

TaskActive(name) == \E kind \in DeletionTaskKinds : <<kind, name>> \in tasks

\* C1: the cursor never moves backwards: after a cycle that started with a set
\* cursor, the cursor is set and is not earlier than it was.
C1_CursorNeverMovesBackwards ==
    (IsSync /\ last.cursor_before # NoDatetime) =>
        /\ synced_until # NoDatetime
        /\ synced_until[1] >= last.cursor_before[1]

\* C2: a cycle neither creates nor overwrites the record of a project that the
\* leader listed and that has an active deletion task, of either kind.
C2_DeletionTaskBlocksImport ==
    IsSync =>
        \A name \in last.listed :
            TaskActive(name) =>
                /\ (name \in DOMAIN db) = (name \in DOMAIN last.db_before)
                /\ name \in DOMAIN db => db[name] = last.db_before[name]

\* a cycle ran to its end; the leader listed a project with a deletion task
\* that the import pass would have stored otherwise: its local record differs
\* from the leader's, or it is absent locally and terminal at the leader
C2_Witness ==
    /\ IsSync
    /\ last.outcome = "done"
    /\ \E name \in last.listed :
        /\ TaskActive(name)
        /\ \/ name \in DOMAIN last.db_before /\ last.db_before[name] # leader[name]
           \/ name \notin DOMAIN last.db_before /\ leader[name].state \in TerminalStates

\* C3: a second clean full sync right after a clean full sync, the leader
\* unchanged and nobody else writing, leaves the Local Store as the first left it.
C3_FullSyncTwiceIdempotent ==
    (CleanFullSync(last) /\ last.after_full) => db = last.db_before

\* C4 as claimed: an incremental cycle never turns a project that was not
\* archived into an archived one.
C4_IncrementalNeverArchived ==
    (IsSync /\ ~last.full_sync) =>
        \A name \in DOMAIN last.db_before :
            last.db_before[name].state # Archived =>
                (name \in DOMAIN db => db[name].state # Archived)

\* C4 amended: an incremental cycle never runs the archive pass and patches
\* nothing; a project that was not archived is archived after the cycle only
\* when the leader listed it with the state archived.
C4_IncrementalArchivedOnlyByLeader ==
    (IsSync /\ ~last.full_sync) =>
        /\ ~last.archive_ran
        /\ last.patched = {}
        /\ \A name \in DOMAIN last.db_before :
            (last.db_before[name].state # Archived /\ name \in DOMAIN db
                /\ db[name].state = Archived) =>
                    (name \in last.listed /\ leader[name].state = Archived)

\* an incremental cycle ran to its end; a local project the leader did not
\* list stays not archived, and one the leader listed as archived became so
C4_Witness ==
    /\ IsSync
    /\ ~last.full_sync
    /\ last.outcome = "done"
    /\ \E name \in DOMAIN last.db_before \ last.listed :
        last.db_before[name].state # Archived /\ db[name].state # Archived
    /\ \E name \in DOMAIN last.db_before \cap last.listed :
        last.db_before[name].state # Archived /\ db[name].state = Archived

\* C5: when no patch raises, the archive pass patches exactly the snapshot's
\* names that the leader did not list, each to archived; it never patches a
\* name the leader listed.
C5_ArchivesExactlyMissing ==
    (IsSync /\ last.archive_ran) =>
        /\ last.patched \cap last.listed = {}
        /\ \A name \in last.patched : db[name].state = Archived
        /\ last.patch_failed = {} => last.patched = DOMAIN last.db_before \ last.listed

\* an archive pass patched a project while the leader listed another local one
C5_Witness ==
    /\ IsSync
    /\ last.archive_ran
    /\ last.patch_failed = {}
    /\ last.patched # {}
    /\ last.listed \cap DOMAIN last.db_before # {}
    /\ \E name \in last.patched : last.db_before[name].state # Archived

\* C6: a project the leader lists in a non-terminal state and that the Local
\* Store did not hold before the cycle is not in the Local Store after it.
C6_NewNonTerminalNotImported ==
    IsSync =>
        \A name \in last.listed :
            (leader[name].state \notin TerminalStates /\ name \notin DOMAIN last.db_before)
                => name \notin DOMAIN db

\* a cycle ran to its end with such a project listed, and imported another
C6_Witness ==
    /\ IsSync
    /\ last.outcome = "done"
    /\ \E name \in last.listed :
        leader[name].state \notin TerminalStates /\ name \notin DOMAIN last.db_before
    /\ \E name \in last.listed : name \in DOMAIN db /\ name \notin DOMAIN last.db_before

\* C7: after a cycle whose calls to the Local Store did not raise, a project
\* the leader listed, present locally before and with no deletion task, has
\* the leader's record: whatever its local state was, archived too.
C7_PresentProjectReplaced ==
    (IsSync /\ last.outcome = "done") =>
        \A name \in last.listed \cap DOMAIN last.db_before :
            ~TaskActive(name) => (name \in DOMAIN db /\ db[name] = leader[name])

\* a locally archived project got the leader's state and timestamp back
C7_Witness ==
    /\ IsSync
    /\ last.outcome = "done"
    /\ \E name \in last.listed \cap DOMAIN last.db_before :
        /\ ~TaskActive(name)
        /\ last.db_before[name].state = Archived
        /\ leader[name].state # Archived
        /\ leader[name].updated_at # last.db_before[name].updated_at
        /\ db[name] = leader[name]

\* C8: when a patch of the archive pass raises, every other project of the
\* snapshot that the leader did not list is patched to archived all the same,
\* and the cycle ends by advancing the cursor to the leader's latest_updated_at.
C8_ArchiveFailureIsolated ==
    (IsSync /\ last.archive_ran /\ last.patch_failed # {}) =>
        /\ \A name \in (DOMAIN last.db_before \ last.listed) \ last.patch_failed :
            name \in last.patched /\ db[name].state = Archived
        /\ last.outcome = "done"
        /\ last.latest # NoDatetime =>
            synced_until = Datetime(IF last.latest[1] < Epoch THEN Epoch ELSE last.latest[1])

\* the patch of one project raised, another was archived, the cursor moved
C8_Witness ==
    /\ IsSync
    /\ last.archive_ran
    /\ last.patch_failed # {}
    /\ \E name \in last.patched :
        last.db_before[name].state # Archived /\ db[name].state = Archived
    /\ last.latest # NoDatetime
    /\ synced_until # last.cursor_before

\* C9: no sync cycle, whatever raised in it, removes a row of the Local Store;
\* an archived row is the row it was with the state archived.
C9_NoRowRemoved ==
    IsSync =>
        /\ DOMAIN last.db_before \subseteq DOMAIN db
        /\ \A name \in last.patched :
            db[name] = [last.db_before[name] EXCEPT !.state = Archived]

\* a full cycle archived a row that was not archived and kept every row
C9_Witness ==
    /\ IsSync
    /\ last.archive_ran
    /\ \E name \in last.patched : last.db_before[name].state # Archived
    /\ DOMAIN db = DOMAIN last.db_before

\* C10: the cursor is unset or at least the epoch; a cycle that ends with a
\* latest_updated_at before the epoch sets the cursor to the epoch.
C10_CursorAtLeastEpoch ==
    /\ synced_until = NoDatetime \/ synced_until[1] >= Epoch
    /\ (IsSync /\ last.outcome = "done" /\ last.latest # NoDatetime
            /\ last.latest[1] < Epoch) => synced_until = Datetime(Epoch)

\* the leader's latest_updated_at was before the epoch and the cursor is the epoch
C10_Witness ==
    /\ IsSync
    /\ last.outcome = "done"
    /\ last.latest # NoDatetime
    /\ last.latest[1] < Epoch
    /\ synced_until = Datetime(Epoch)

\* C11: a cycle calls the leader's list at most twice.  The first call passes
\* the cursor as its updated-after filter.  There is a second call exactly when
\* the first raised, it passes no filter, and when it succeeds the cycle goes on
\* with its result: every project of the leader is listed, and the latest stamp
\* is the one of that whole list.
C11_RetryOnceUnfiltered ==
    IsSync =>
        /\ Len(last.call_log) \in 1..2
        /\ last.call_log[1].updated_after = last.cursor_before
        /\ (Len(last.call_log) = 2) <=> (last.fails >= 1)
        /\ last.call_log[1].raised <=> (last.fails >= 1)
        /\ last.fails >= 1 => last.call_log[2].updated_after = NoDatetime
        /\ last.fails = 1 =>
              /\ ~last.call_log[2].raised
              /\ last.outcome # "leader_failed"
              /\ last.listed = DOMAIN leader
              /\ last.latest = LeaderLatestUpdatedAt(leader, DOMAIN leader)

\* the first call raised under a cursor that filters a project out, and the
\* cycle went on with the whole list
C11_Witness ==
    /\ IsSync
    /\ last.fails = 1
    /\ last.cursor_before # NoDatetime
    /\ LeaderListedNames(leader, last.cursor_before) # DOMAIN leader
    /\ last.listed = DOMAIN leader
    /\ last.outcome = "done"

\* C12: when the filtered call and the unfiltered retry both raise, the cycle
\* ends with the error: the Local Store is the one before the cycle (nothing
\* created, overwritten or archived), no archive pass ran, and the cursor is the
\* one before the cycle, so that the next cycle starts from the leader fetch
\* with that cursor (C11 holds of every cycle).
C12_BothCallsFailAborts ==
    IsSync /\ last.fails >= 2 =>
        /\ last.outcome = "leader_failed"
        /\ db = last.db_before
        /\ synced_until = last.cursor_before
        /\ ~last.archive_ran
        /\ last.patched = {}
        /\ last.listed = {}

\* both calls raised in a full sync over a Local Store holding a live project
\* that the leader misses, with the cursor set
C12_Witness ==
    /\ IsSync
    /\ last.fails >= 2
    /\ last.full_sync
    /\ last.cursor_before # NoDatetime
    /\ \E name \in DOMAIN db \ DOMAIN leader : db[name].state # Archived
    /\ DOMAIN leader \ DOMAIN db # {}

\* C25: an incremental cycle imports no project that the Local Store did not
\* hold: after it the Local Store has no name that it did not have before.
C25_UnknownNeverImportedIncrementally ==
    IsSync /\ ~last.full_sync => DOMAIN db \subseteq DOMAIN last.db_before

\* C25, amended: a cycle, incremental or full, imports a project that the
\* Local Store did not hold only when the leader lists it in a terminal state
\* and no deletion task of it is active, and then with the leader's record; a
\* cycle that ends without raising imports every such project.
C25_UnknownImportedIffTerminal ==
    IsSync =>
        /\ \A name \in DOMAIN db \ DOMAIN last.db_before :
              /\ name \in last.listed
              /\ leader[name].state \in TerminalStates
              /\ ~TaskActive(name)
              /\ db[name] = leader[name]
        /\ last.outcome = "done" =>
              \A name \in last.listed \ DOMAIN last.db_before :
                  leader[name].state \in TerminalStates /\ ~TaskActive(name)
                      => name \in DOMAIN db

\* an incremental cycle imported a project that the Local Store did not hold
C25_Witness ==
    /\ IsSync
    /\ ~last.full_sync
    /\ last.cursor_before # NoDatetime
    /\ \E name \in DOMAIN db \ DOMAIN last.db_before : db[name].state \in TerminalStates

\* C27: a full sync lists the leader's projects with no updated-after filter,
\* whatever the cursor is, so that its archive pass archives no project that
\* the leader holds.
C27_FullSyncListsUnfiltered ==
    IsSync /\ last.full_sync =>
        /\ \A i \in DOMAIN last.call_log : last.call_log[i].updated_after = NoDatetime
        /\ last.patched \cap DOMAIN leader = {}

----------------------------------------------------------------------------
\* Properties of Member.initialize, under SpecInitialize.

\* C16: a chief runs exactly one full sync in initialize, and that sync has
\* ended, well or with an error, before the timer is registered.  The timer is
\* registered after either end when the interval is above zero, and not when
\* it is zero or below.  A sync that raised does not fail initialize.  The
\* cycles of the timer are incremental.  A Member that is not chief runs no
\* sync and registers no timer.
C16_OneFullSyncThenTimer ==
    /\ member.pc = "start_periodic" =>
          /\ IsSync /\ last.full_sync
          /\ member.syncs = 1
          /\ member.initial_sync = (IF last.outcome = "done" THEN "done" ELSE "raised")
          /\ ~member.periodic
          /\ member.error = "none"
    /\ member.pc = "initialized" /\ member.config.is_chief =>
          /\ member.initial_sync \in {"done", "raised"}
          /\ member.syncs >= 1
          /\ member.periodic <=> (member.config.interval > 0)
          /\ member.error = "none"
          /\ IsSync => ~last.full_sync
    /\ member.periodic => member.pc = "initialized" /\ member.config.is_chief
    /\ member.pc \in {"new", "initial_sync", "failed"} => member.syncs = 0 /\ ~member.periodic
    /\ ~member.config.is_chief => member.syncs = 0 /\ ~member.periodic /\ ~IsSync

\* the full sync of a chief raised and the timer was registered all the same
C16_Witness ==
    /\ member.pc = "initialized"
    /\ member.config.is_chief
    /\ member.initial_sync = "raised"
    /\ member.periodic
    /\ member.syncs = 1

\* C17: with a leader name that is neither "iguazio" nor "nop", and with the
\* leader "iguazio" and no access key, initialize fails with an error; no sync
\* cycle has run and no timer is registered then, nor afterwards.
C17_BadLeaderConfigurationFails ==
    LET config == member.config
        unsupported == config.leader_name \notin {"iguazio", "nop"}
        no_key == config.leader_name = "iguazio" /\ ~config.access_key
    IN  /\ (unsupported \/ no_key) /\ member.pc # "new" =>
              /\ member.pc = "failed"
              /\ member.error = (IF no_key THEN "invalid_argument" ELSE "not_implemented")
        /\ member.pc = "failed" =>
              /\ member.syncs = 0
              /\ member.initial_sync = "none"
              /\ ~member.periodic
              /\ ~IsSync

\* a chief with a positive interval, the leader "iguazio" and no access key
\* has failed to initialize
C17_Witness ==
    /\ member.pc = "failed"
    /\ member.config.leader_name = "iguazio"
    /\ ~member.config.access_key
    /\ member.config.is_chief
    /\ member.config.interval > 0

----------------------------------------------------------------------------
\* Properties of the Request Router, under SpecRouter.  In a state that a call
\* has just produced, router holds the request, what the collaborators did,
\* the Local Store and the leader's registry before the call, the calls made
\* and the answer.

LeaderCalls(log) == {i \in DOMAIN log : log[i].target = "leader"}
LocalStoreCalls(log) == {i \in DOMAIN log : log[i].target = "db"}

\* C18: create_project for a request of the leader validates the project
\* first (an invalid one is refused with nothing written), then writes it to
\* the Local Store, calls the Leader Client never, and returns (project, False).
C18_CreateFromLeaderWritesLocally ==
    router.op = "create_project" /\ router.request.from_leader =>
        LET request == router.request
            name == request.project_name
            validate == Call("member", "validate_project", "none", name)
        IN  /\ router.log[1] = validate
            /\ LeaderCalls(router.log) = {}
            /\ leader = router.leader_before
            /\ ~router.is_running_in_background
            /\ ~request.valid =>
                  /\ router.raised = "invalid"
                  /\ router.log = <<validate>>
                  /\ db = router.db_before
            /\ request.valid /\ ~router.env.db_raises =>
                  /\ router.raised = "none"
                  /\ router.log = <<validate, Call("db", "create_project", "caller", name)>>
                  /\ db = CrudStoreProject(router.db_before, name, request.project)
                  /\ router.project = Row(name, request.project)

\* a valid project of the leader that the Local Store did not hold is created
C18_Witness ==
    /\ router.op = "create_project"
    /\ router.request.from_leader
    /\ router.request.valid
    /\ router.raised = "none"
    /\ router.request.project_name \notin DOMAIN router.db_before
    /\ router.request.project_name \in DOMAIN db

\* C19: create_project for a valid request that is not of the leader calls the
\* Leader Client's create, once, before any call of the Local Store.  When the
\* leader answers that the creation runs in the background, the result is
\* (None, True) and the Local Store is not called.  When it answers that it
\* does not, the Local Store is read once, after the leader's call, through a
\* new session and never through the caller's, and the result is (P, False)
\* with P the row that the Local Store holds then.
C19_CreateForwardsToLeader ==
    router.op = "create_project" /\ ~router.request.from_leader /\ router.request.valid =>
        LET name == router.request.project_name
            log == router.log
        IN  /\ Len(log) >= 2
            /\ log[2] = Call("leader", "create_project", "leader", name)
            /\ LeaderCalls(log) = {2}
            /\ router.env.answer = "background" =>
                  /\ router.raised = "none"
                  /\ router.project = NoProject
                  /\ router.is_running_in_background
                  /\ LocalStoreCalls(log) = {}
                  /\ db = router.db_before
            /\ router.env.answer \in {"written", "not_written"} =>
                  /\ LocalStoreCalls(log) = {3}
                  /\ log[3] = Call("db", "get_project", "new", name)
                  /\ name \in DOMAIN db =>
                        /\ router.raised = "none"
                        /\ router.project = Row(name, db[name])
                        /\ ~router.is_running_in_background

\* the leader created the project at once and wrote it to the Local Store
\* during the call; the row returned is the one written, not the one before
C19_Witness ==
    /\ router.op = "create_project"
    /\ ~router.request.from_leader
    /\ router.env.answer = "written"
    /\ router.raised = "none"
    /\ router.request.project_name \in DOMAIN router.db_before
    /\ router.db_before[router.request.project_name] # router.request.project
    /\ router.project = Row(router.request.project_name, router.request.project)

\* C20: store_project for a valid request that is not of the leader first reads
\* the name from the Local Store.  Not found: no error for that, the call is
\* the create of a request that is not of the leader (one create and no update
\* of the Leader Client) and its answer is that create's.  Found: one update
\* and no create of the Leader Client, then the row is read again and returned
\* with False.  For a request of the leader the project is written to the
\* Local Store and the Leader Client is not called.
C20_StoreRoutes ==
    router.op = "store_project" /\ router.request.valid /\ ~router.env.db_raises =>
        LET request == router.request
            name == request.name
            log == router.log
            create_path == CreateProject(router.db_before, router.leader_before,
                                         request, router.env)
        IN  /\ request.from_leader =>
                  /\ LeaderCalls(log) = {}
                  /\ leader = router.leader_before
                  /\ LocalStoreCalls(log) = {2}
                  /\ log[2] = Call("db", "store_project", "caller", name)
                  /\ db = CrudStoreProject(router.db_before, name, request.project)
                  /\ router.raised = "none"
                  /\ ~router.is_running_in_background
            /\ ~request.from_leader =>
                  /\ log[2] = Call("db", "get_project", "caller", name)
                  /\ Cardinality(LeaderCalls(log)) <= 1
            /\ ~request.from_leader /\ name \notin DOMAIN router.db_before =>
                  /\ log = SubSeq(log, 1, 2) \o create_path.log
                  /\ \A i \in LeaderCalls(log) : log[i].op = "create_project"
                  /\ router.raised = create_path.raised
                  /\ router.project = create_path.project
                  /\ router.is_running_in_background = create_path.is_running_in_background
                  /\ db = create_path.db
                  /\ leader = create_path.leader
            /\ ~request.from_leader /\ name \in DOMAIN router.db_before =>
                  /\ LeaderCalls(log) = {3}
                  /\ log[3] = Call("leader", "update_project", "leader", name)
                  /\ router.env.answer # "raises" =>
                        /\ LocalStoreCalls(log) = {2, 4}
                        /\ log[4] = Call("db", "get_project", "caller", name)
                        /\ router.raised = "none"
                        /\ router.project = Row(name, db[name])
                        /\ ~router.is_running_in_background

\* a store of a name that the Local Store did not hold went the create path
\* and returned the row that the leader wrote
C20_Witness ==
    /\ router.op = "store_project"
    /\ ~router.request.from_leader
    /\ router.request.name \notin DOMAIN router.db_before
    /\ router.raised = "none"
    /\ ~router.is_running_in_background
    /\ router.project = Row(router.request.project_name, router.request.project)
    /\ Len(router.log) = 5

\* C23: delete_project for a request of the leader deletes the row from the
\* Local Store, calls the Leader Client never and returns False.  For a
\* request that is not of the leader it calls the Leader Client's delete once,
\* with the caller's wait_for_completion, calls the Local Store never, and
\* returns what the Leader Client returned: whether the deletion completed.
C23_DeleteRoutes ==
    router.op = "delete_project" =>
        LET request == router.request
            log == router.log
        IN  /\ request.from_leader =>
                  /\ LeaderCalls(log) = {}
                  /\ leader = router.leader_before
                  /\ log = <<Call("db", "delete_project", "caller", request.name)>>
                  /\ ~router.returned
                  /\ ~router.env.db_raises =>
                        /\ router.raised = "none"
                        /\ db = CrudDeleteProject(router.db_before, request.name)
            /\ ~request.from_leader =>
                  /\ LocalStoreCalls(log) = {}
                  /\ log = <<DeleteCall(request.name, request.wait_for_completion)>>
                  /\ router.env.answer = "raises" =>
                        router.raised = "leader_error" /\ db = router.db_before
                  /\ router.env.answer # "raises" =>
                        /\ router.raised = "none"
                        /\ router.returned <=>
                              router.env.answer \in {"completed", "completed_and_deleted"}
                  /\ router.env.answer \in {"not_completed", "completed"} =>
                        db = router.db_before

\* a caller that is not the leader and does not wait deleted a project that
\* the Local Store holds; the leader answered before completion
C23_Witness ==
    /\ router.op = "delete_project"
    /\ ~router.request.from_leader
    /\ ~router.request.wait_for_completion
    /\ router.env.answer = "not_completed"
    /\ router.raised = "none"
    /\ ~router.returned
    /\ router.request.name \in DOMAIN db

\* C24: list_projects in the leader format for a requester that is not the
\* leader fails with access denied before any call of the Local Store or of
\* the Leader Client's formatter.  In the leader format for the leader, what
\* is returned is, project by project, the formatter's output for the Local
\* Store's list.  In any other format the Local Store's list is returned as
\* it is, and the formatter is not called.
C24_ListProjectsLeaderFormat ==
    router.op = "list_projects" =>
        LET request == router.request
            local == CrudListProjectsFormat(router.db_before, router.order, request.format)
        IN  /\ db = router.db_before
            /\ request.format = "leader" /\ ~request.from_leader =>
                  router.raised = "access_denied" /\ router.log = <<>>
            /\ request.format = "leader" /\ request.from_leader =>
                  /\ router.raised = "none"
                  /\ router.log[1] = Call("db", "list_projects", "caller", "")
                  /\ Cardinality(LeaderCalls(router.log)) = Len(local)
                  /\ Len(router.output) = Len(local)
                  /\ \A i \in 1..Len(local) :
                        router.output[i] = FormatAsLeaderProject(local[i])
            /\ request.format # "leader" =>
                  /\ router.raised = "none"
                  /\ router.log = <<Call("db", "list_projects", "caller", "")>>
                  /\ router.output = local

\* the leader format was refused over a Local Store that holds projects
C24_Witness ==
    /\ router.op = "list_projects"
    /\ router.request.format = "leader"
    /\ ~router.request.from_leader
    /\ router.raised = "access_denied"
    /\ DOMAIN db = Names

LocalStoreWrites(log) ==
    {i \in DOMAIN log :
        /\ log[i].target = "db"
        /\ log[i].op \in {"create_project", "store_project", "patch_project",
                          "delete_project"}}

\* C21: patch_project for a request of the leader fails at once with
\* not-implemented: it calls neither the Local Store nor the Leader Client,
\* and the Local Store and the leader are as they were.
C21_PatchFromLeaderRefused ==
    router.op = "patch_project" /\ router.request.from_leader =>
        /\ router.pc = "returned"
        /\ router.raised = "not_implemented"
        /\ router.log = <<>>
        /\ db = router.db_before
        /\ leader = router.leader_before

\* the leader patched a project that the Local Store holds
C21_Witness ==
    /\ router.op = "patch_project"
    /\ router.request.from_leader
    /\ router.raised = "not_implemented"
    /\ router.request.name \in DOMAIN db
    /\ router.request.project # <<>>

\* C22: patch_project for a request that is not of the leader reads the
\* current row and merges the patch into it: a field that the patch leaves
\* out keeps the row's value, a field of the patch replaces the row's, except
\* that under the additive strategy a list of the patch is appended to the
\* row's list.  It then takes the store path with the merged project: when
\* no delete came between and the call returned, the Router has read the
\* row, validated, read again, called the Leader Client's update_project and
\* read once more, the leader holds the merged project, and the Router has
\* written nothing to the Local Store itself.
C22_PatchMergesThenStores ==
    /\ router.op = "patch_project"
    /\ ~router.request.from_leader
    /\ router.request.name \in DOMAIN router.db_before
    =>  LET request == router.request
            name == request.name
            patch == request.project
            current == router.db_before[name]
            merged == router.patched_project[1].project
        IN  /\ router.current = Row(name, current)
            /\ router.patched_project[1].name = name
            /\ DOMAIN merged = DOMAIN current
            /\ \A field \in DOMAIN current \ DOMAIN patch : merged[field] = current[field]
            /\ "state" \in DOMAIN patch => merged.state = patch.state
            /\ "spec" \in DOMAIN patch =>
                  merged.spec = IF request.patch_mode = "additive"
                                THEN current.spec \o patch.spec ELSE patch.spec
            /\ LocalStoreWrites(router.log) = {}
            /\ router.log[1] = Call("db", "get_project", "caller", name)
            /\ router.pc = "merged" =>
                  /\ Len(router.log) = 1
                  /\ leader = router.leader_before
            /\ router.pc = "returned" /\ router.raised = "none" /\ ~router.deleted_between =>
                  /\ router.log = <<Call("db", "get_project", "caller", name),
                                    Call("member", "validate_project", "none", name),
                                    Call("db", "get_project", "caller", name),
                                    Call("leader", "update_project", "leader", name),
                                    Call("db", "get_project", "caller", name)>>
                  /\ leader = CrudStoreProject(router.leader_before, name, merged)
                  /\ db \in {router.db_before,
                             CrudStoreProject(router.db_before, name, merged)}
                  /\ router.project = Row(name, db[name])
                  /\ ~router.is_running_in_background

\* an additive patch of the state alone: the merged project, which is neither
\* the row nor the patch, went to the leader
C22_Witness ==
    /\ router.op = "patch_project"
    /\ router.pc = "returned"
    /\ ~router.request.from_leader
    /\ router.raised = "none"
    /\ ~router.deleted_between
    /\ router.request.patch_mode = "additive"
    /\ router.request.project = [state |-> "archived"]
    /\ router.current[1].project.state = "online"
    /\ router.current[1].project.spec = <<"a">>
    /\ router.request.name \in DOMAIN leader
    /\ leader[router.request.name] = router.patched_project[1].project
    /\ router.request.name \in DOMAIN router.leader_before
    /\ router.leader_before[router.request.name] # leader[router.request.name]

\* C26: a create, store, patch or delete request that is not of the leader
\* makes the Router call no create, store, patch or delete of the Local
\* Store; a create, store or delete request of the leader makes the Router
\* call the Leader Client never.
C26_OneSideWrittenPerRequest ==
    router.op \in {"create_project", "store_project", "patch_project", "delete_project"} =>
        /\ ~router.request.from_leader => LocalStoreWrites(router.log) = {}
        /\ router.request.from_leader /\ router.op # "patch_project" =>
              LeaderCalls(router.log) = {}

\* a store that is not of the leader returned with the Local Store changed:
\* the leader wrote it, the Router's own calls of the Local Store are reads
C26_Witness ==
    /\ router.op = "store_project"
    /\ ~router.request.from_leader
    /\ router.raised = "none"
    /\ db # router.db_before
    /\ LocalStoreCalls(router.log) # {}
    /\ LeaderCalls(router.log) # {}

\* C30: a patch that is not of the leader never creates: for a project that
\* the Local Store does not hold it fails with not-found and calls the Leader
\* Client never, and whatever comes between its read and its store, it never
\* calls the Leader Client's create_project.
C30_PatchNeverCreates ==
    router.op = "patch_project" /\ ~router.request.from_leader =>
        /\ router.request.name \notin DOMAIN router.db_before =>
              /\ router.raised = "not_found"
              /\ LeaderCalls(router.log) = {}
        /\ \A i \in DOMAIN router.log :
              ~(router.log[i].target = "leader" /\ router.log[i].op = "create_project")

----------------------------------------------------------------------------
\* Properties of the steps of a sync cycle, under SpecSteps.

IsPrefix(s, t) == Len(s) <= Len(t) /\ SubSeq(t, 1, Len(s)) = s

CyclePhases(full_sync) ==
    IF full_sync THEN Phases ELSE SelectSeq(Phases, LAMBDA phase : phase # "archive")

NamesOf(projects) == {projects[k].name : k \in 1..Len(projects)}

\* C13: the phases of a cycle are entered in the order leader list, Local
\* Store list, import pass, archive pass (in a full sync only), cursor, and a
\* cycle that ends without raising has gone through all of them.  When the
\* archive pass starts the import pass is over: every listed project was
\* examined and every project that passed the filter was stored.  The archive
\* pass never archives a name of the cycle's leader list.
C13_PhasesInOrder ==
    cycle # Idle =>
        /\ IsPrefix(cycle.trace, CyclePhases(cycle.full_sync))
        /\ cycle.pc = "done" => cycle.trace = CyclePhases(cycle.full_sync)
        /\ cycle.pc \notin {"done", "raised"} => cycle.trace[Len(cycle.trace)] = 
              (IF cycle.pc \in {"check", "store"} THEN "import" ELSE cycle.pc)
        /\ cycle.pc = "archive" \/ cycle.archived # {} =>
              /\ cycle.full_sync
              /\ cycle.checked = NamesOf(cycle.leader_projects)
              /\ cycle.stored = NamesOf(cycle.filtered_projects)
        /\ cycle.archived \cap NamesOf(cycle.leader_projects) = {}

\* a full sync that stored a listed project, then archived a missing one, and
\* set the cursor
C13_Witness ==
    /\ cycle.pc = "done"
    /\ cycle.full_sync
    /\ cycle.stored # {}
    /\ cycle.archived # {}
    /\ synced_until = cycle.latest_updated_at

\* C15: the cycle never stores a project while a deletion task of that project
\* is active, whenever the task became active.
C15_NeverStoresWhileDeleting ==
    cycle # Idle => cycle.stored_while_deleting = {}

\* C28: the cursor changes only in the last step of a cycle, one that went
\* through the leader fetch, the Local Store read and the import pass (and
\* the archive pass of a full sync) without raising and whose leader response
\* carried a latest stamp.  A cycle that raised, after storing projects too,
\* and a cycle whose response carried no latest stamp leave the cursor as it
\* was; so does every step that is not of a cycle.
C28_CursorChangesOnlyAtCycleEnd ==
    /\ [](cycle.pc = "raised" => synced_until = cycle.cursor_before)
    /\ [](cycle.pc = "done" /\ cycle.latest_updated_at = NoDatetime
            => synced_until = cycle.cursor_before)
    /\ [][synced_until' # synced_until =>
            /\ cycle.pc = "cursor"
            /\ cycle'.pc = "done"
            /\ cycle.trace = CyclePhases(cycle.full_sync)
            /\ cycle.latest_updated_at # NoDatetime]_vars

\* with the cursor set by an earlier cycle, a cycle stored a project and then
\* raised
C28_Witness ==
    /\ cycle.pc = "raised"
    /\ cycle.stored # {}
    /\ cycle.cursor_before # NoDatetime
    /\ synced_until = cycle.cursor_before

\* Under SpecDelete.
\* C29: a project deleted from the Local Store, with no deletion task left,
\* after the cycle listed the Local Store and before the import pass stored
\* it, and that the leader's list of the cycle holds in a non-terminal state,
\* is not in the Local Store when the cycle has ended.
C29_DeletedProjectNotRecreated ==
    cycle.pc = "done" =>
        \A k \in 1..Len(cycle.leader_projects) :
            LET leader_project == cycle.leader_projects[k]
            IN  /\ leader_project.name \in cycle.deleted
                /\ leader_project.project.state \notin TerminalStates
                => leader_project.name \notin DOMAIN db

----------------------------------------------------------------------------
\* Properties of the periodic sync, under SpecLive.

\* the Local Store holds the leader's record of the project
SameAsLeader(name) ==
    IF name \in DOMAIN db /\ name \in DOMAIN leader THEN db[name] = leader[name] ELSE FALSE

\* C14: a project that the Local Store and the leader both hold, and for which
\* from some point on no deletion task is active, has in the Local Store
\* eventually the record that the leader holds.
C14_EventuallyConsistent ==
    \A name \in Names :
        /\ name \in DOMAIN db /\ name \in DOMAIN leader
        /\ <>[](~TaskActive(name))
        => <>SameAsLeader(name)

====
